---- MODULE Spec2Model ----
(***************************************************************************)
(* The GLB asset cache (src/lib/utils/GLBLoader.ts) and the part lifecycle *)
(* controllers that load through it (Uprights, UprightConnectors, the      *)
(* SharedFrames Baseplates, the PremiumArchTent/frame Baseplates and the   *)
(* BaseplatePreview), as one state machine.  A controller run is one       *)
(* execution of a component's useEffect body; its only suspension point is *)
(* the import inside loadGLB.  Three further specifications share the      *)
(* variables: PlanSpec (placement, miter, mirror and arch-height           *)
(* arithmetic), LoaderSpec (loadGLB and clearGLBCache under direct callers)*)
(* and PartSpec (the usePartLoader hook).                                  *)
(***************************************************************************)
EXTENDS Integers, Sequences, FiniteSets, TLC

\* ------------------------------------------------------------------ bounds

\* Total number of effect runs (loadGLB calls) in one behaviour.
MaxRuns == 3

\* Largest numBays handed to a placement planner.
MaxBays == 4

\* Total number of direct loadGLB calls in one behaviour of the loader alone.
MaxCalls == 3

\* Total number of loadPart calls in one behaviour of the part loader hook.
MaxLoads == 3

\* ------------------------------------------------------------ input domains

\* scene.uid of the scenes a component may be mounted in
Scenes == {"sceneA", "sceneB"}

\* numBays values handed to the components (the App slider starts at 3)
BayChoices == {3, 5}

Comps == {"Uprights", "UprightConnectors", "Baseplates", "FrameBaseplates", "BaseplatePreview"}

\* The sets of components rendered side by side: each component alone, and
\* the pair App renders, <Baseplates .../> next to <Uprights .../>
MountSets == {{c} : c \in Comps} \cup {{"Baseplates", "Uprights"}}

\* Components that own an AbortController and pass its signal to loadGLB
SignalComps == {"Uprights", "UprightConnectors", "Baseplates"}

\* What SceneLoader.ImportMeshAsync can deliver for a file: a GLB with a
\* __root__ node and one mesh with vertices, a GLB with only the __root__
\* node, or a rejection.
Outcomes == {"ok", "empty", "fail"}

Folder(c) ==
  CASE c = "Uprights"          -> "/tents/PremiumArchTent/15m/frame/"
    [] c = "UprightConnectors" -> "/tents/SharedFrames/"
    [] c = "Baseplates"        -> "/tents/SharedFrames/"
    [] c = "FrameBaseplates"   -> "/tents/PremiumArchTent/frame/"
    [] c = "BaseplatePreview"  -> "/tents/PremiumArchTent/15m/frame/"

File(c) ==
  CASE c = "Uprights"          -> "upright.glb"
    [] c = "UprightConnectors" -> "upright-connector-r.glb"
    [] c = "Baseplates"        -> "basePlates.glb"
    [] c = "FrameBaseplates"   -> "basePlates.glb"
    [] c = "BaseplatePreview"  -> "basePlates.glb"

\* const key = folder + filename
CacheKey(folder, filename) == folder \o filename

KeyOf(c) == CacheKey(Folder(c), File(c))

\* Material ids: 0 is "no material", Aluminum is the shared code-defined
\* material, any other id n is the material embedded in imported mesh n.
NoMaterial == 0
Aluminum == 1000

\* ------------------------------------------------------------------- state

VARIABLES
  glbCache,      \* the module-level Map: key -> [meshes, sceneUid]
  meshes,        \* every mesh ever created, by id (index)
  runs,          \* every effect run ever started, by id (index)
  mounted,       \* the components the application renders
  hasSlope,      \* the specs handed to Uprights carry rafterSlopeAtEave > 0
  current,       \* per component: the run whose cleanup is pending (0: none)
  loadingCount,  \* App's loadingCount
  matDisposed,   \* embedded GLB materials that have been disposed
  geomEdited,    \* geometries whose vertex data has been rewritten
  imports,       \* history: number of imports started per <<scene, key>>
  sequential,    \* history: only non-overlapping successful loads, no clear
  plan,          \* one placement, mirror or arch-height computation: inputs, position, output
  boundsCache,   \* per component module: the Map of measureWorldBounds
  calls,         \* every loadGLB call made by a caller other than the controllers
  gone,          \* the scenes that have been torn down
  part           \* the state of one usePartLoader hook and its loadPart calls

vars == <<glbCache, meshes, runs, mounted, hasSlope, current, loadingCount, matDisposed,
          geomEdited, imports, sequential, plan, boundsCache, calls, gone, part>>

\* ----------------------------------------------------------------- helpers

Range(s) == {s[i] : i \in DOMAIN s}

RECURSIVE SeqSum(_)
SeqSum(s) == IF s = <<>> THEN 0 ELSE Head(s) + SeqSum(Tail(s))

\* A mesh as the scene holds it.
\*   kind     "imported" (a member of result.meshes) | "clone" | "left"
\*   src      the mesh it was cloned from (0 for an imported mesh)
\*   run      the run whose load or callback created it
\*   verts    getTotalVertices() > 0
\*   geom     id of the geometry it references (0: none); clones share it
\*   mat      id of the material it references
\*   inst     number of matrices in its thin-instance buffer
\*   buffers  number of instance buffers attached to it
\*   alwaysActive   alwaysSelectAsActiveMesh
\*   frozen   world matrix and normals are frozen
\*   disposals  number of dispose() calls made on it
MeshRec(kind, src, run, verts, enabled, disposed, mat, geom) ==
  [kind |-> kind, src |-> src, run |-> run, verts |-> verts,
   enabled |-> enabled, disposed |-> disposed, mat |-> mat, geom |-> geom,
   inst |-> 0, buffers |-> 0, alwaysActive |-> FALSE, frozen |-> FALSE,
   disposals |-> 0]

\* m.dispose() on every mesh of ids
DisposeMeshes(ms, ids) ==
  [i \in DOMAIN ms |->
     IF i \in ids THEN [ms[i] EXCEPT !.disposed = TRUE, !.disposals = @ + 1] ELSE ms[i]]

\* The meshes SceneLoader.ImportMeshAsync creates in the scene for run r,
\* with ids base+1 .. : __root__ first, then the mesh with geometry.
ImportedMeshes(base, r, outcome) ==
  IF outcome = "ok"
    THEN << MeshRec("imported", 0, r, FALSE, TRUE, FALSE, NoMaterial, 0),
            MeshRec("imported", 0, r, TRUE, TRUE, FALSE, base + 2, base + 2) >>
    ELSE << MeshRec("imported", 0, r, FALSE, TRUE, FALSE, NoMaterial, 0) >>

\* const clone = m.clone(m.name, null); clone.setEnabled(true)
CloneOf(ms, id, r) ==
  MeshRec("clone", id, r, ms[id].verts, TRUE, FALSE, ms[id].mat, ms[id].geom)

\* (mutant) cloneTemplates without clone.setEnabled(true)
cloneTemplates_NoEnable(ms, templates, r) ==
  [i \in 1..Len(templates) |->
     [CloneOf(ms, templates[i], r) EXCEPT !.enabled = ms[templates[i]].enabled]]

\* cloneTemplates(templates): one enabled clone per template, in order;
\* returns the new mesh records (their ids follow the existing ones).
cloneTemplates(ms, templates, r) ==
  [i \in 1..Len(templates) |-> CloneOf(ms, templates[i], r)]

\* ids lo+1 .. lo+n as a sequence
IdSeq(lo, n) == [i \in 1..n |-> lo + i]

\* setLoadingCount(c => loading ? c + 1 : Math.max(0, c - 1))
handleLoadStateChange(c, loading) ==
  IF loading THEN c + 1 ELSE IF c > 0 THEN c - 1 ELSE 0

RunRec(c, s, n, miter) ==
  [comp |-> c, scene |-> s, numBays |-> n, miter |-> miter,
   pc |-> "importing",   \* importing | resolved | rejected | done
   aborted |-> FALSE,    \* controller.signal.aborted / the disposed flag
   midLoad |-> FALSE,    \* history: cleanup ran while the load was pending
   viaImport |-> FALSE,  \* history: this run's loadGLB awaited an import
   loaded |-> <<>>,      \* what loadGLB resolved with
   disposables |-> <<>>, \* allDisposables / meshes, without the root node
   rootDisposals |-> 0,  \* number of root.dispose() calls
   teardown |-> <<>>,    \* history: what the cleanup function did, in order
   ons |-> 0, offs |-> 0,\* onLoadStateChange(true) / (false) calls
   exit |-> "none"]      \* none | success | canceled | empty | failed

\* new Map()
EmptyMap == [k \in {} |-> 0]

MapSet(map, key, val) ==
  [k \in DOMAIN map \cup {key} |-> IF k = key THEN val ELSE map[k]]

MapDelete(map, keys) == [k \in DOMAIN map \ keys |-> map[k]]

\* The component modules with a boundsCache, and the cache key each passes
\* to measureWorldBounds (the template literal without the numbers it takes
\* from specs, which do not change between the runs of one behaviour)
BoundsComps == {"Uprights", "Baseplates"}
BoundsKey(c) == IF c = "Uprights" THEN "uprights-rotated" ELSE "baseplates-raw"

\* measureWorldBounds(meshes, cacheKey) of run r, as the Map it leaves: a
\* cached result is returned as it is; otherwise the bounds of the run's
\* meshes are measured and stored under the key.
measureWorldBounds(cache, cacheKey, r) ==
  IF cacheKey \in DOMAIN cache THEN cache ELSE MapSet(cache, cacheKey, [run |-> r])

\* usePartLoader before loadPart has been called: the refs, the loading
\* state, and (history) the loadPart calls made
NoPart ==
  [loadGenRef |-> 0, loading |-> FALSE, meshesRef |-> <<>>,
   partNodeLocalRef |-> 0,   \* the loadPart call whose part node the ref holds (0: null)
   modelNodeRef |-> 0,
   nodesDisposed |-> {},     \* the calls whose part and model node are disposed
   loads |-> <<>>]

\* No placement computation is under way
NoPlan == [pc |-> "off"]

Init ==
  /\ plan = NoPlan
  /\ glbCache = EmptyMap
  /\ meshes = <<>>
  /\ runs = <<>>
  /\ mounted \in MountSets
  \* App passes PREMIUM_ARCH_SPECS, which has no rafterSlopeAtEave
  /\ hasSlope \in (IF mounted = {"Uprights"} THEN BOOLEAN ELSE {FALSE})
  /\ current = [c \in Comps |-> 0]
  /\ loadingCount = 0
  /\ matDisposed = {}
  /\ geomEdited = {}
  /\ imports = [k \in Scenes \X {KeyOf(c) : c \in Comps} |-> 0]
  /\ sequential = TRUE
  /\ boundsCache = [c \in BoundsComps |-> EmptyMap]
  /\ calls = <<>>
  /\ gone = {}
  /\ part = NoPart

\* ------------------------------------------------------------------ loadGLB

\* (mutant) loadGLB that takes any cached entry for a hit, whatever its scene
loadGLBStart_IgnoresScene(cache, ms, scene, key, r) ==
  IF key \in DOMAIN cache
    THEN [hit |-> TRUE, cache |-> cache,
          meshes |-> ms \o cloneTemplates(ms, cache[key].meshes, r),
          loaded |-> IdSeq(Len(ms), Len(cache[key].meshes))]
    ELSE [hit |-> FALSE, cache |-> cache, meshes |-> ms, loaded |-> <<>>]

\* loadGLB up to its await: a hit on an entry of the requesting scene returns
\* clones at once; an entry of another scene is disposed and deleted, and the
\* import starts.
loadGLBStart(cache, ms, scene, key, r) ==
  IF key \in DOMAIN cache /\ cache[key].sceneUid = scene
    THEN [hit |-> TRUE, cache |-> cache,
          meshes |-> ms \o cloneTemplates(ms, cache[key].meshes, r),
          loaded |-> IdSeq(Len(ms), Len(cache[key].meshes))]
    ELSE IF key \in DOMAIN cache
      THEN [hit |-> FALSE, cache |-> MapDelete(cache, {key}),
            meshes |-> DisposeMeshes(ms, Range(cache[key].meshes)),
            loaded |-> <<>>]
      ELSE [hit |-> FALSE, cache |-> cache, meshes |-> ms, loaded |-> <<>>]

\* (mutant) loadGLB that never looks at the signal after the import
loadGLBResume_IgnoresSignal(cache, ms, scene, key, r, outcome, signalAborted) ==
  LET base == Len(ms)
      result == ImportedMeshes(base, r, outcome)
      ids == IdSeq(base, Len(result))
      withResult == ms \o result
      hidden == [i \in DOMAIN withResult |->
                   IF i \in Range(ids) THEN [withResult[i] EXCEPT !.enabled = FALSE]
                                       ELSE withResult[i]]
  IN [cache |-> MapSet(cache, key, [meshes |-> ids, sceneUid |-> scene]),
      meshes |-> hidden \o cloneTemplates(hidden, ids, r),
      loaded |-> IdSeq(Len(hidden), Len(ids))]

\* (mutant) loadGLB that returns [] on an aborted signal without disposing
\* what the import created
loadGLBResume_KeepsAborted(cache, ms, scene, key, r, outcome, signalAborted) ==
  LET base == Len(ms)
      result == ImportedMeshes(base, r, outcome)
      ids == IdSeq(base, Len(result))
      withResult == ms \o result
      hidden == [i \in DOMAIN withResult |->
                   IF i \in Range(ids) THEN [withResult[i] EXCEPT !.enabled = FALSE]
                                       ELSE withResult[i]]
  IN IF signalAborted
       THEN [cache |-> cache, meshes |-> withResult, loaded |-> <<>>]
       ELSE [cache |-> MapSet(cache, key, [meshes |-> ids, sceneUid |-> scene]),
             meshes |-> hidden \o cloneTemplates(hidden, ids, r),
             loaded |-> IdSeq(Len(hidden), Len(ids))]

\* (mutant) loadGLB that keeps an entry another call stored during the await
loadGLBResume_FirstWriterWins(cache, ms, scene, key, r, outcome, signalAborted) ==
  LET base == Len(ms)
      result == ImportedMeshes(base, r, outcome)
      ids == IdSeq(base, Len(result))
      withResult == ms \o result
      hidden == [i \in DOMAIN withResult |->
                   IF i \in Range(ids) THEN [withResult[i] EXCEPT !.enabled = FALSE]
                                       ELSE withResult[i]]
  IN IF signalAborted
       THEN [cache |-> cache, meshes |-> DisposeMeshes(withResult, Range(ids)),
             loaded |-> <<>>]
     ELSE IF key \in DOMAIN cache
       THEN [cache |-> cache,
             meshes |-> hidden \o cloneTemplates(hidden, cache[key].meshes, r),
             loaded |-> IdSeq(Len(hidden), Len(cache[key].meshes))]
       ELSE [cache |-> MapSet(cache, key, [meshes |-> ids, sceneUid |-> scene]),
             meshes |-> hidden \o cloneTemplates(hidden, ids, r),
             loaded |-> IdSeq(Len(hidden), Len(ids))]

\* loadGLB after its await, the import having delivered `outcome`: with the
\* signal aborted the imported meshes are disposed and [] is returned;
\* otherwise they are disabled, stored under the key and cloned.
loadGLBResume(cache, ms, scene, key, r, outcome, signalAborted) ==
  LET base == Len(ms)
      result == ImportedMeshes(base, r, outcome)
      ids == IdSeq(base, Len(result))
      withResult == ms \o result
  IN IF signalAborted
       THEN [cache |-> cache,
             meshes |-> DisposeMeshes(withResult, Range(ids)),
             loaded |-> <<>>]
       ELSE LET hidden == [i \in DOMAIN withResult |->
                             IF i \in Range(ids)
                               THEN [withResult[i] EXCEPT !.enabled = FALSE]
                               ELSE withResult[i]]
            IN [cache |-> MapSet(cache, key, [meshes |-> ids, sceneUid |-> scene]),
                meshes |-> hidden \o cloneTemplates(hidden, ids, r),
                loaded |-> IdSeq(Len(hidden), Len(ids))]

\* (mutant) loadGLB that registers the key before the import has delivered
loadGLBReject_KeepsEntry(cache, ms, scene, key) ==
  [cache |-> MapSet(cache, key, [meshes |-> <<>>, sceneUid |-> scene]), meshes |-> ms]

\* loadGLB when the awaited import rejects: the rejection leaves the function
\* at the await, before glbCache.set; nothing is stored and no mesh exists.
loadGLBReject(cache, ms, scene, key) ==
  [cache |-> cache, meshes |-> ms]

\* (mutant) clearGLBCache(scene) that forgets the scene filter
clearGLBCacheScene_ClearsAll(cache, ms, uid) ==
  [cache |-> EmptyMap,
   meshes |-> DisposeMeshes(ms, UNION {Range(cache[k].meshes) : k \in DOMAIN cache})]

\* clearGLBCache(scene): dispose and delete the entries tagged with the scene
clearGLBCacheScene(cache, ms, uid) ==
  LET hit == {k \in DOMAIN cache : cache[k].sceneUid = uid}
  IN [cache |-> MapDelete(cache, hit),
      meshes |-> DisposeMeshes(ms, UNION {Range(cache[k].meshes) : k \in hit})]

\* clearGLBCache(): dispose every entry's meshes, glbCache.clear()
clearGLBCacheAll(cache, ms) ==
  [cache |-> EmptyMap,
   meshes |-> DisposeMeshes(ms, UNION {Range(cache[k].meshes) : k \in DOMAIN cache})]

\* ------------------------------------------------------------- controllers

\* The steps of the cleanup function, in the order the code takes them.  The
\* three components with a controller: controller.abort(), then every entry
\* of allDisposables, which starts with the root node and continues with the
\* meshes pushed by the callback.  The two without: disposed = true, then
\* the meshes, then root.dispose().
CleanupSteps(c, disposables) ==
  LET meshSteps == [k \in DOMAIN disposables |-> "mesh"]
  IN IF c \in SignalComps THEN <<"abort", "node">> \o meshSteps
                           ELSE <<"abort">> \o meshSteps \o <<"node">>

\* The effect's cleanup function: controller.abort() (disposed = true in the
\* two components without a controller), dispose everything in the
\* disposables list, dispose the root node.
CleanupRun(ms, rs, r) ==
  [meshes |-> DisposeMeshes(ms, Range(rs[r].disposables)),
   runs |-> [rs EXCEPT ![r].aborted = TRUE,
                       ![r].midLoad = @ \/ rs[r].pc # "done",
                       ![r].rootDisposals = @ + 1,
                       ![r].teardown = CleanupSteps(rs[r].comp, rs[r].disposables)]]

\* State after the cleanup of the component's previous effect, if any
AfterCleanup(c) ==
  IF current[c] = 0 THEN [meshes |-> meshes, runs |-> runs]
                    ELSE CleanupRun(meshes, runs, current[c])

HasCallback(c) == c \in SignalComps

\* The component's effect runs (mount, or a dependency changed): the previous
\* effect's cleanup, then the effect body up to the pending promise.
Effect(c, s, n) ==
  /\ Len(runs) < MaxRuns
  /\ c \in mounted
  /\ LET pre == AfterCleanup(c)
         r == Len(runs) + 1
         key == KeyOf(c)
         start == loadGLBStart(glbCache, pre.meshes, s, key, r)
         rec == [RunRec(c, s, n, c = "Uprights" /\ hasSlope) EXCEPT
                   !.ons = IF HasCallback(c) THEN 1 ELSE 0,
                   !.pc = IF start.hit THEN "resolved" ELSE "importing",
                   !.viaImport = ~start.hit,
                   !.loaded = start.loaded]
     IN /\ runs' = Append(pre.runs, rec)
        /\ meshes' = start.meshes
        /\ glbCache' = start.cache
        /\ current' = [current EXCEPT ![c] = r]
        /\ loadingCount' = IF HasCallback(c)
                             THEN handleLoadStateChange(loadingCount, TRUE)
                             ELSE loadingCount
        /\ imports' = IF start.hit THEN imports
                      ELSE [imports EXCEPT ![<<s, key>>] = @ + 1]
        /\ sequential' = (sequential /\ \A q \in DOMAIN runs : runs[q].pc # "importing")
        \* Uprights.tsx: boundsCache.clear()
        /\ boundsCache' = IF c = "Uprights" THEN [boundsCache EXCEPT ![c] = EmptyMap]
                                            ELSE boundsCache
  /\ UNCHANGED <<plan, calls, gone, part, mounted, hasSlope, matDisposed, geomEdited>>

\* The effect is torn down without a new run (unmount, enabled = false,
\* scene gone): only the cleanup function runs.
Teardown(c) ==
  /\ current[c] # 0
  /\ LET post == CleanupRun(meshes, runs, current[c])
     IN /\ meshes' = post.meshes
        /\ runs' = post.runs
  /\ current' = [current EXCEPT ![c] = 0]
  /\ UNCHANGED <<plan, calls, gone, part, boundsCache, mounted, hasSlope, glbCache, loadingCount, matDisposed,
                 geomEdited, imports, sequential>>

\* ------------------------------------------------- the promise callbacks

\* loaded.filter(m => m instanceof Mesh && m.getTotalVertices() > 0)
WithGeometry(ms, ids) == SelectSeq(ids, LAMBDA i : ms[i].verts)

\* stripAndApplyMaterial(meshes, material): dispose the material each mesh
\* references, if it has one, then assign the replacement.
stripAndApplyMaterial(ms, md, ids, material) ==
  [meshes |-> [i \in DOMAIN ms |->
                 IF i \in Range(ids) THEN [ms[i] EXCEPT !.mat = material] ELSE ms[i]],
   matDisposed |-> md \cup {ms[i].mat : i \in {j \in Range(ids) : ms[j].mat # NoMaterial}}]

\* m.makeGeometryUnique(): the mesh gets a private copy of its geometry
makeGeometryUnique(ms, ids) ==
  [i \in DOMAIN ms |-> IF i \in Range(ids) THEN [ms[i] EXCEPT !.geom = i] ELSE ms[i]]

\* m.clone(m.name + '-left', null), makeGeometryUnique(), material = aluminum:
\* the new mesh records, whose ids follow the existing ones.
LeftClones(ms, ids, r) ==
  [k \in 1..Len(ids) |->
     MeshRec("left", ids[k], r, ms[ids[k]].verts, ms[ids[k]].enabled, FALSE,
             Aluminum, Len(ms) + k)]

\* (mutant) one entry per bay instead of one per frame line
SideTransforms_OnePerBay(numBays, side) ==
  [i \in 1..numBays |-> [line |-> i - 1, side |-> side]]

\* One entry per frame line, for one side: for (i = 0; i < numLines; i++) push
SideTransforms(numBays, side) ==
  [i \in 1..(numBays + 1) |-> [line |-> i - 1, side |-> side]]

\* for (i = 0; i < numLines; i++) for (side of [-1, 1]) push
PairedTransforms(numBays) ==
  [j \in 1..(2 * (numBays + 1)) |->
     [line |-> (j - 1) \div 2, side |-> IF (j - 1) % 2 = 0 THEN "L" ELSE "R"]]

\* (mutant) createThinInstances that adds one single-matrix buffer per entry
createThinInstances_BufferPerEntry(mesh, transforms) ==
  IF Len(transforms) = 0 THEN mesh
  ELSE [mesh EXCEPT !.inst = 1, !.buffers = Len(transforms)]

\* createThinInstances: nothing for an empty list; else one matrix per entry,
\* copied into one Float32Array of 16 floats each, which becomes the mesh's
\* one 'matrix' buffer (thinInstanceSetBuffer with stride 16).
createThinInstances(mesh, transforms) ==
  IF Len(transforms) = 0 THEN mesh
  ELSE LET matrixData == Len(transforms) * 16
       IN [mesh EXCEPT !.inst = matrixData \div 16, !.buffers = 1]

\* createFrozenThinInstances: createThinInstances, then, whatever the list,
\* alwaysSelectAsActiveMesh = true, freezeWorldMatrix(), freezeNormals()
createFrozenThinInstances(mesh, transforms) ==
  [createThinInstances(mesh, transforms) EXCEPT !.alwaysActive = TRUE, !.frozen = TRUE]

\* src.setEnabled(true); createFrozenThinInstances(src, transforms)
Emit(ms, ids, transforms) ==
  [i \in DOMAIN ms |->
     IF i \in Range(ids)
       THEN createFrozenThinInstances([ms[i] EXCEPT !.enabled = TRUE], transforms)
       ELSE ms[i]]

\* The result of a callback: the new mesh table, the run's disposables, the
\* number of onLoadStateChange(false) calls and root.dispose() calls it made.
Outcome(ms, md, ge, disposables, offs, rootDisposals, exit) ==
  [meshes |-> ms, matDisposed |-> md, geomEdited |-> ge,
   disposables |-> disposables, offs |-> offs, rootDisposals |-> rootDisposals,
   exit |-> exit]

\* (mutant) the aborted branch without its onLoadStateChange(false) call
UprightsAborted_Silent(ms, md, ge, run) ==
  Outcome(DisposeMeshes(ms, Range(run.loaded)), md, ge, <<>>, 0, 0, "canceled")

\* Uprights.tsx, the aborted branch of the .then callback:
\* for (const m of loaded) m.dispose(); onLoadStateChange?.(false); return
UprightsAborted(ms, md, ge, run) ==
  Outcome(DisposeMeshes(ms, Range(run.loaded)), md, ge, <<>>, 1, 0, "canceled")

\* Uprights.tsx, the .then callback
UprightsThen(ms, md, ge, run, r) ==
  LET loaded == run.loaded
      templateMeshes == WithGeometry(ms, loaded)
  IN IF run.aborted
       THEN UprightsAborted(ms, md, ge, run)
     ELSE IF templateMeshes = <<>>
       THEN Outcome(ms, md, ge, <<>>, 1, 0, "empty")
     ELSE
       LET ms1 == DisposeMeshes(ms, Range(loaded) \ Range(templateMeshes))
           strip == stripAndApplyMaterial(ms1, md, templateMeshes, Aluminum)
           ms2 == IF run.miter THEN makeGeometryUnique(strip.meshes, templateMeshes)
                               ELSE strip.meshes
           lefts == IF run.miter THEN LeftClones(ms2, templateMeshes, r) ELSE <<>>
           leftMeshes == IdSeq(Len(ms2), Len(lefts))
           ms3 == ms2 \o lefts
           edited == IF run.miter
                       THEN {ms3[i].geom : i \in Range(templateMeshes) \cup Range(leftMeshes)}
                       ELSE {}
           ms4 == IF run.miter
                    THEN Emit(Emit(ms3, templateMeshes, SideTransforms(run.numBays, "R")),
                              leftMeshes, SideTransforms(run.numBays, "L"))
                    ELSE Emit(ms3, templateMeshes, PairedTransforms(run.numBays))
       IN Outcome(ms4, strip.matDisposed, ge \cup edited,
                  templateMeshes \o leftMeshes, 1, 0, "success")

\* UprightConnectors.tsx, the .then callback
ConnectorsThen(ms, md, ge, run, r) ==
  LET loaded == run.loaded
      rightMeshes == WithGeometry(ms, loaded)
  IN IF run.aborted
       THEN Outcome(DisposeMeshes(ms, Range(loaded)), md, ge, <<>>, 1, 0, "canceled")
     ELSE IF rightMeshes = <<>>
       THEN Outcome(ms, md, ge, <<>>, 1, 0, "empty")
     ELSE
       LET ms1 == DisposeMeshes(ms, Range(loaded) \ Range(rightMeshes))
           strip == stripAndApplyMaterial(ms1, md, rightMeshes, Aluminum)
           ms2 == makeGeometryUnique(strip.meshes, rightMeshes)
           lefts == LeftClones(ms2, rightMeshes, r)
           leftMeshes == IdSeq(Len(ms2), Len(lefts))
           ms3 == ms2 \o lefts
           ms4 == Emit(Emit(ms3, rightMeshes, SideTransforms(run.numBays, "R")),
                       leftMeshes, SideTransforms(run.numBays, "L"))
       IN Outcome(ms4, strip.matDisposed, ge, rightMeshes \o leftMeshes, 1, 0, "success")

\* SharedFrames/Baseplates.tsx, the .then callback
BaseplatesThen(ms, md, ge, run, r) ==
  LET loaded == run.loaded
      templateMeshes == WithGeometry(ms, loaded)
  IN IF run.aborted
       THEN Outcome(DisposeMeshes(ms, Range(loaded)), md, ge, <<>>, 0, 0, "canceled")
     ELSE IF templateMeshes = <<>>
       THEN Outcome(ms, md, ge, <<>>, 0, 0, "empty")
     ELSE
       LET strip == stripAndApplyMaterial(ms, md, templateMeshes, Aluminum)
           ms1 == Emit(strip.meshes, templateMeshes, PairedTransforms(run.numBays))
       IN Outcome(ms1, strip.matDisposed, ge, templateMeshes, 1, 0, "success")

\* PremiumArchTent/frame/Baseplates.tsx, the .then callback
FrameBaseplatesThen(ms, md, ge, run, r) ==
  IF run.aborted
    THEN Outcome(ms, md, ge, <<>>, 0, 0, "canceled")
    ELSE Outcome([i \in DOMAIN ms |->
                    IF i \in Range(run.loaded) THEN [ms[i] EXCEPT !.mat = Aluminum]
                                               ELSE ms[i]],
                 md, ge, run.loaded, 0, 0, "success")

\* BaseplatePreview, the .then callback
PreviewThen(ms, md, ge, run, r) ==
  IF run.aborted
    THEN Outcome(ms, md, ge, <<>>, 0, 0, "canceled")
    ELSE Outcome(ms, md, ge, run.loaded, 0, 0, "success")

\* The .catch callbacks: the three controllers with a loading callback call
\* onLoadStateChange(false); the other two dispose the root unless disposed.
CatchOf(ms, md, ge, run, r) ==
  IF run.comp \in SignalComps
    THEN Outcome(ms, md, ge, <<>>, 1, 0, "failed")
    ELSE Outcome(ms, md, ge, <<>>, 0, IF run.aborted THEN 0 ELSE 1, "failed")

ThenOf(ms, md, ge, run, r) ==
  CASE run.comp = "Uprights"          -> UprightsThen(ms, md, ge, run, r)
    [] run.comp = "UprightConnectors" -> ConnectorsThen(ms, md, ge, run, r)
    [] run.comp = "Baseplates"        -> BaseplatesThen(ms, md, ge, run, r)
    [] run.comp = "FrameBaseplates"   -> FrameBaseplatesThen(ms, md, ge, run, r)
    [] run.comp = "BaseplatePreview"  -> PreviewThen(ms, md, ge, run, r)

\* loadingCount after k calls of onLoadStateChange(false)
RECURSIVE AfterOffs(_, _)
AfterOffs(c, k) == IF k = 0 THEN c ELSE AfterOffs(handleLoadStateChange(c, FALSE), k - 1)

\* The state after a callback of run r, started from mesh table ms and
\* run table rs.
Apply(r, rs, out) ==
  /\ meshes' = out.meshes
  /\ matDisposed' = out.matDisposed
  /\ geomEdited' = out.geomEdited
  /\ runs' = [rs EXCEPT ![r].pc = "done",
                        ![r].disposables = out.disposables,
                        ![r].offs = @ + out.offs,
                        ![r].rootDisposals = @ + out.rootDisposals,
                        ![r].exit = out.exit]
  /\ loadingCount' = AfterOffs(loadingCount, out.offs)
  \* the fitting step of Uprights and Baseplates measures the templates
  /\ boundsCache' = IF rs[r].comp \in BoundsComps /\ out.exit = "success"
                      THEN [boundsCache EXCEPT ![rs[r].comp] =
                              measureWorldBounds(@, BoundsKey(rs[r].comp), r)]
                      ELSE boundsCache

\* SceneLoader.ImportMeshAsync resolves for run r: loadGLB runs to its end
\* and the .then callback of the run follows in the same microtask chain.
ImportResolves(r, outcome) ==
  /\ runs[r].pc = "importing"
  /\ outcome # "fail"
  /\ LET signalAborted == runs[r].comp \in SignalComps /\ runs[r].aborted
         res == loadGLBResume(glbCache, meshes, runs[r].scene, KeyOf(runs[r].comp),
                              r, outcome, signalAborted)
         rs == [runs EXCEPT ![r].loaded = res.loaded]
     IN /\ glbCache' = res.cache
        /\ Apply(r, rs, ThenOf(res.meshes, matDisposed, geomEdited, rs[r], r))
        /\ sequential' = (sequential /\ ~signalAborted)
  /\ UNCHANGED <<plan, calls, gone, part, mounted, hasSlope, current, imports>>

\* The import rejects: loadGLB rejects with it and the .catch callback runs.
ImportRejects(r) ==
  /\ runs[r].pc = "importing"
  /\ LET res == loadGLBReject(glbCache, meshes, runs[r].scene, KeyOf(runs[r].comp))
     IN /\ glbCache' = res.cache
        /\ Apply(r, runs, CatchOf(res.meshes, matDisposed, geomEdited, runs[r], r))
  /\ sequential' = FALSE
  /\ UNCHANGED <<plan, calls, gone, part, mounted, hasSlope, current, imports>>

\* The promise of a run served from the cache is fulfilled: its .then
\* callback runs, after the effect that started it has returned.
Then(r) ==
  /\ runs[r].pc = "resolved"
  /\ Apply(r, runs, ThenOf(meshes, matDisposed, geomEdited, runs[r], r))
  /\ UNCHANGED <<plan, calls, gone, part, mounted, hasSlope, glbCache, current, imports, sequential>>

\* clearGLBCache(scene)
ClearCache(uid) ==
  /\ LET res == clearGLBCacheScene(glbCache, meshes, uid)
     IN /\ glbCache' = res.cache
        /\ meshes' = res.meshes
        /\ sequential' = (sequential /\ res.cache = glbCache)
  /\ UNCHANGED <<plan, calls, gone, part, boundsCache, mounted, hasSlope, runs, current, loadingCount, matDisposed,
                 geomEdited, imports>>

\* clearGLBCache()
ClearCacheAll ==
  /\ LET res == clearGLBCacheAll(glbCache, meshes)
     IN /\ glbCache' = res.cache
        /\ meshes' = res.meshes
        /\ sequential' = (sequential /\ res.cache = glbCache)
  /\ UNCHANGED <<plan, calls, gone, part, boundsCache, mounted, hasSlope, runs, current, loadingCount, matDisposed,
                 geomEdited, imports>>

\* ---------------------------------------------------------- specification

BaysFor(c) == IF c \in SignalComps THEN BayChoices ELSE {0}

Next ==
  \/ \E c \in Comps, s \in Scenes : \E n \in BaysFor(c) : Effect(c, s, n)
  \/ \E c \in Comps : Teardown(c)
  \/ \E r \in DOMAIN runs, o \in Outcomes : ImportResolves(r, o)
  \/ \E r \in DOMAIN runs : ImportRejects(r)
  \/ \E r \in DOMAIN runs : Then(r)
  \/ \E s \in Scenes : ClearCache(s)
  \/ ClearCacheAll

Spec == Init /\ [][Next]_vars

\* ---------------------------------------------------- the loader by itself
\* loadGLB and clearGLBCache under callers that call them directly, with or
\* without an AbortSignal, and keep what they are handed.

\* The keys asked for: two of the files the components load
LoaderKeys == {KeyOf("FrameBaseplates"), KeyOf("Baseplates")}

\* signal?: AbortSignal, absent or fresh when loadGLB is called
SignalChoices == {"none", "live"}

\* What the import can deliver when it resolves
Deliveries == {"ok", "empty"}

CallRec(scene, key, signal) ==
  [scene |-> scene, key |-> key,
   signal |-> signal,    \* none | live | aborted
   pc |-> "importing",   \* importing | returned | rejected
   viaImport |-> FALSE,  \* history: the call awaited an import
   rival |-> 0,          \* history: a call importing the same key when this one started
   loaded |-> <<>>]      \* what loadGLB resolved with

\* The latest call that is waiting for an import of the key (0: none)
InFlight(key) ==
  LET waiting == {q \in DOMAIN calls : calls[q].pc = "importing" /\ calls[q].key = key}
  IN IF waiting = {} THEN 0 ELSE CHOOSE q \in waiting : \A p \in waiting : p <= q

LoaderInit ==
  /\ plan = NoPlan
  /\ glbCache = EmptyMap
  /\ meshes = <<>>
  /\ runs = <<>>
  /\ mounted = {}
  /\ hasSlope = FALSE
  /\ current = [c \in Comps |-> 0]
  /\ loadingCount = 0
  /\ matDisposed = {}
  /\ geomEdited = {}
  /\ imports = [k \in Scenes \X {KeyOf(c) : c \in Comps} |-> 0]
  /\ sequential = TRUE
  /\ boundsCache = [c \in BoundsComps |-> EmptyMap]
  /\ calls = <<>>
  /\ gone = {}
  /\ part = NoPart

controllerVars == <<plan, runs, mounted, hasSlope, current, loadingCount, matDisposed,
                    geomEdited, imports, sequential, boundsCache, part>>

\* loadGLB(scene, folder, filename, signal) up to its await, in a live scene
CallLoadGLB(scene, key, signal) ==
  /\ Len(calls) < MaxCalls
  /\ scene \notin gone
  /\ LET i == Len(calls) + 1
         start == loadGLBStart(glbCache, meshes, scene, key, i)
     IN /\ calls' = Append(calls,
                      [CallRec(scene, key, signal) EXCEPT
                         !.pc = IF start.hit THEN "returned" ELSE "importing",
                         !.viaImport = ~start.hit,
                         !.rival = IF start.hit THEN 0 ELSE InFlight(key),
                         !.loaded = start.loaded])
        /\ meshes' = start.meshes
        /\ glbCache' = start.cache
  /\ UNCHANGED <<controllerVars, gone>>

\* controller.abort() by the caller while its load is pending
AbortSignal(i) ==
  /\ calls[i].pc = "importing"
  /\ calls[i].signal = "live"
  /\ calls' = [calls EXCEPT ![i].signal = "aborted"]
  /\ UNCHANGED <<controllerVars, glbCache, meshes, gone>>

\* The import of call i resolves and loadGLB runs to its end
ImportDelivers(i, outcome) ==
  /\ calls[i].pc = "importing"
  /\ LET res == loadGLBResume(glbCache, meshes, calls[i].scene, calls[i].key, i, outcome,
                              calls[i].signal = "aborted")
     IN /\ glbCache' = res.cache
        /\ meshes' = res.meshes
        /\ calls' = [calls EXCEPT ![i].pc = "returned", ![i].loaded = res.loaded]
  /\ UNCHANGED <<controllerVars, gone>>

\* The import of call i rejects and loadGLB rejects with it
ImportFails(i) ==
  /\ calls[i].pc = "importing"
  /\ LET res == loadGLBReject(glbCache, meshes, calls[i].scene, calls[i].key)
     IN /\ glbCache' = res.cache
        /\ meshes' = res.meshes
  /\ calls' = [calls EXCEPT ![i].pc = "rejected"]
  /\ UNCHANGED <<controllerVars, gone>>

\* A scene is torn down: every caller in it that holds a controller aborts
\* it, then clearGLBCache(scene); no load is issued for the scene afterwards.
SceneTeardown(uid) ==
  /\ uid \notin gone
  /\ \E i \in DOMAIN calls : calls[i].scene = uid
  /\ LET res == clearGLBCacheScene(glbCache, meshes, uid)
     IN /\ glbCache' = res.cache
        /\ meshes' = res.meshes
  /\ calls' = [i \in DOMAIN calls |->
                 IF calls[i].scene = uid /\ calls[i].signal = "live"
                   THEN [calls[i] EXCEPT !.signal = "aborted"] ELSE calls[i]]
  /\ gone' = gone \cup {uid}
  /\ UNCHANGED controllerVars

LoaderNext ==
  \/ \E s \in Scenes, k \in LoaderKeys, sig \in SignalChoices : CallLoadGLB(s, k, sig)
  \/ \E i \in DOMAIN calls : AbortSignal(i)
  \/ \E i \in DOMAIN calls, o \in Deliveries : ImportDelivers(i, o)
  \/ \E i \in DOMAIN calls : ImportFails(i)
  \/ \E s \in Scenes : SceneTeardown(s)

LoaderSpec == LoaderInit /\ [][LoaderNext]_vars

\* ------------------------------------------------------- the part loader
\* usePartLoader: loadPart(scene, glb) awaits loadGLB without a signal and
\* guards its result with a generation counter.

\* The GLB_PARTS entries picked in the builder
PartKeys == {KeyOf("UprightConnectors"), KeyOf("Uprights")}

LoadRec(scene, key, gen) ==
  [scene |-> scene, key |-> key, gen |-> gen,
   pc |-> "importing",   \* importing | resolved | done
   loaded |-> <<>>,      \* what loadGLB resolved with
   onLoaded |-> 0,       \* number of onLoaded calls
   exit |-> "none"]      \* none | stale | empty | success | failed

\* disposePart: dispose the meshes of meshesRef, the model node and the part
\* node, and reset the refs
disposePart(ms, p) ==
  [meshes |-> DisposeMeshes(ms, Range(p.meshesRef)),
   part |-> [p EXCEPT !.meshesRef = <<>>,
                      !.nodesDisposed = @ \cup ({p.partNodeLocalRef} \ {0}),
                      !.modelNodeRef = 0,
                      !.partNodeLocalRef = 0]]

\* What follows the await in loadPart, for call i handed `loaded`: the try
\* block, then the finally block.
AfterAwait(ms, md, p, i, loaded) ==
  LET withGeometry == WithGeometry(ms, loaded)
      finally(q, exit, n) ==
        [q EXCEPT !.loading = FALSE,
                  !.loads[i].pc = "done",
                  !.loads[i].loaded = loaded,
                  !.loads[i].exit = exit,
                  !.loads[i].onLoaded = @ + n]
  IN IF p.loads[i].gen # p.loadGenRef
       THEN [meshes |-> DisposeMeshes(ms, Range(loaded)), matDisposed |-> md,
             part |-> finally(p, "stale", 0)]
     ELSE IF withGeometry = <<>>
       THEN [meshes |-> DisposeMeshes(ms, Range(loaded)), matDisposed |-> md,
             part |-> finally(p, "empty", 0)]
     ELSE
       LET strip == stripAndApplyMaterial(ms, md, withGeometry, Aluminum)
           ms1 == [m \in DOMAIN ms |->
                     IF m \in Range(withGeometry)
                       THEN [strip.meshes[m] EXCEPT !.enabled = TRUE]
                       ELSE strip.meshes[m]]
           ms2 == DisposeMeshes(ms1, Range(loaded) \ Range(withGeometry))
           p1 == [p EXCEPT !.partNodeLocalRef = i,
                           !.modelNodeRef = i,
                           !.meshesRef = @ \o withGeometry]
       IN [meshes |-> ms2, matDisposed |-> strip.matDisposed,
           part |-> finally(p1, "success", 1)]

hookVars == <<plan, runs, mounted, hasSlope, current, loadingCount, geomEdited, imports,
              sequential, boundsCache, calls, gone>>

\* loadPart(scene, glb) up to its await
loadPart(scene, key) ==
  /\ Len(part.loads) < MaxLoads
  /\ LET i == Len(part.loads) + 1
         gen == part.loadGenRef + 1
         dp == disposePart(meshes, part)
         start == loadGLBStart(glbCache, dp.meshes, scene, key, i)
         rec == [LoadRec(scene, key, gen) EXCEPT
                   !.pc = IF start.hit THEN "resolved" ELSE "importing",
                   !.loaded = start.loaded]
     IN /\ part' = [dp.part EXCEPT !.loadGenRef = gen,
                                   !.loading = TRUE,
                                   !.loads = Append(@, rec)]
        /\ meshes' = start.meshes
        /\ glbCache' = start.cache
  /\ UNCHANGED <<hookVars, matDisposed>>

\* The import of call i resolves: loadGLB stores and clones, loadPart goes on
PartImportResolves(i, outcome) ==
  /\ part.loads[i].pc = "importing"
  /\ LET res == loadGLBResume(glbCache, meshes, part.loads[i].scene, part.loads[i].key,
                              i, outcome, FALSE)
         out == AfterAwait(res.meshes, matDisposed, part, i, res.loaded)
     IN /\ glbCache' = res.cache
        /\ meshes' = out.meshes
        /\ matDisposed' = out.matDisposed
        /\ part' = out.part
  /\ UNCHANGED hookVars

\* The import of call i rejects: the catch block logs, the finally block runs
PartImportRejects(i) ==
  /\ part.loads[i].pc = "importing"
  /\ LET res == loadGLBReject(glbCache, meshes, part.loads[i].scene, part.loads[i].key)
     IN /\ glbCache' = res.cache
        /\ meshes' = res.meshes
  /\ part' = [part EXCEPT !.loading = FALSE,
                          !.loads[i].pc = "done",
                          !.loads[i].exit = "failed"]
  /\ UNCHANGED <<hookVars, matDisposed>>

\* loadGLB answered call i from the cache: loadPart goes on in a later
\* microtask
PartContinues(i) ==
  /\ part.loads[i].pc = "resolved"
  /\ LET out == AfterAwait(meshes, matDisposed, part, i, part.loads[i].loaded)
     IN /\ meshes' = out.meshes
        /\ matDisposed' = out.matDisposed
        /\ part' = out.part
  /\ UNCHANGED <<hookVars, glbCache>>

PartInit == LoaderInit

PartNext ==
  \/ \E s \in Scenes, k \in PartKeys : loadPart(s, k)
  \/ \E i \in DOMAIN part.loads, o \in Deliveries : PartImportResolves(i, o)
  \/ \E i \in DOMAIN part.loads : PartImportRejects(i)
  \/ \E i \in DOMAIN part.loads : PartContinues(i)

PartSpec == PartInit /\ [][PartNext]_vars

\* ------------------------------------------------------ placement planning
\* Lengths are in millimetres and slopes in thousandths, so that the code's
\* arithmetic stays in the integers; every length below is even, so halving
\* is exact.  A miter drop, slope times length, is in micrometres.

\* TENT_SPECS of PremiumArchTent/15m, with the upright profile width
\* (profiles.upright.width) and the optional rafterSlopeAtEave
TENT_SPECS ==
  [width |-> 15000, halfWidth |-> 7500, eaveHeight |-> 3200, ridgeHeight |-> 5100,
   bayDistance |-> 5000, archOuterSpan |-> 7606, uprightWidth |-> 212,
   gableSupportPositions |-> <<-2500, 2500>>,
   hasRafterSlope |-> FALSE, rafterSlopeAtEave |-> 0]

\* bayDistance values of the specifications handed in, degenerate ones included
BayDistances == {-2000, 0, 2000, 5000}

\* rafterSlopeAtEave: absent, negative, zero, the 15 m value, a steep one
SlopeChoices == {<<FALSE, 0>>, <<TRUE, -300>>, <<TRUE, 0>>, <<TRUE, 298>>, <<TRUE, 2000>>}

SpecsChoices ==
  {[TENT_SPECS EXCEPT !.bayDistance = d, !.hasRafterSlope = sl[1],
                      !.rafterSlopeAtEave = sl[2]] :
     d \in BayDistances, sl \in SlopeChoices}

\* The components and helpers that compute positions along the tent
Bilateral == {"Baseplates", "Uprights", "UprightConnectors"}
Planners == Bilateral \cup {"getBayPositions", "GableEaveBeams", "GableSupports"}

Emitters == {"createThinInstances", "createFrozenThinInstances"}

\* const z = i * specs.bayDistance - halfLength, halfLength = totalLength / 2
LineZ(specs, numBays, i) ==
  i * specs.bayDistance - (numBays * specs.bayDistance) \div 2

\* position: new Vector3(side * halfWidth, groundY, z) for one list entry
Place(specs, numBays, t) ==
  [side |-> t.side, line |-> t.line,
   x |-> (IF t.side = "L" THEN -1 ELSE 1) * (specs.width \div 2),
   z |-> LineZ(specs, numBays, t.line)]

PlaceAll(specs, numBays, ts) == [j \in DOMAIN ts |-> Place(specs, numBays, ts[j])]

\* What a planner hands on: the single list, or the right and left lists
Lists(paired, right, left) == [paired |-> paired, right |-> right, left |-> left]

\* SharedFrames/Baseplates.tsx, "Build thin instance transforms"
BaseplatesPlan(specs, numBays) ==
  Lists(PlaceAll(specs, numBays, PairedTransforms(numBays)), <<>>, <<>>)

\* const rafterSlope = specs.rafterSlopeAtEave ?? 0
UprightSlope(specs) == IF specs.hasRafterSlope THEN specs.rafterSlopeAtEave ELSE 0

\* Uprights.tsx, "Build thin instance transforms": hasMiter = rafterSlope > 0
\* selects the separate right and left lists
UprightsPlan(specs, numBays) ==
  IF UprightSlope(specs) > 0
    THEN Lists(<<>>, PlaceAll(specs, numBays, SideTransforms(numBays, "R")),
                     PlaceAll(specs, numBays, SideTransforms(numBays, "L")))
    ELSE Lists(PlaceAll(specs, numBays, PairedTransforms(numBays)), <<>>, <<>>)

\* UprightConnectors.tsx, "Thin-instance transforms"
ConnectorsPlan(specs, numBays) ==
  Lists(<<>>, PlaceAll(specs, numBays, SideTransforms(numBays, "R")),
              PlaceAll(specs, numBays, SideTransforms(numBays, "L")))

\* Array.from({ length: numBays + 1 }, (_, i) => i * specs.bayDistance)
getBayPositions(numBays, specs) ==
  [i \in 1..(numBays + 1) |-> (i - 1) * specs.bayDistance]

\* return numBays * specs.bayDistance
getTentLength(numBays, specs) == numBays * specs.bayDistance

\* GableEaveBeams: one box at Y = 0 and one at Y = tentLength
GableEaveBeams(tentLength, specs) ==
  << [end |-> "front", x |-> 0, y |-> 0], [end |-> "back", x |-> 0, y |-> tentLength] >>

\* (mutant) GableSupports that pushes the back entry at tentLength itself
GableSupports_NoInset(tentLength, specs) ==
  [j \in 1..(2 * Len(specs.gableSupportPositions)) |->
     [end |-> IF j % 2 = 1 THEN "front" ELSE "back",
      x |-> specs.gableSupportPositions[(j + 1) \div 2],
      y |-> IF j % 2 = 1 THEN 50 ELSE tentLength]]

\* GableSupports: for each xPos of specs.gableSupportPositions, a front
\* entry at y = 0.050 and a back entry at y = tentLength - 0.050
GableSupports(tentLength, specs) ==
  [j \in 1..(2 * Len(specs.gableSupportPositions)) |->
     [end |-> IF j % 2 = 1 THEN "front" ELSE "back",
      x |-> specs.gableSupportPositions[(j + 1) \div 2],
      y |-> IF j % 2 = 1 THEN 50 ELSE tentLength - 50]]


\* const drop = clamp(slope * pw, 0.01, 0.12): the bounds, in micrometres
MinDrop == 10000
MaxDrop == 120000

\* Math.max(lo, Math.min(hi, v))
clamp(v, lo, hi) ==
  LET m == IF hi < v THEN hi ELSE v
  IN IF lo > m THEN lo ELSE m

\* specs.rafterSlopeAtEave ?? (hw > 1e-6 ? rise / hw : 0.2), in thousandths
ConnectorSlope(specs) ==
  IF specs.hasRafterSlope THEN specs.rafterSlopeAtEave
  ELSE IF specs.halfWidth > 0
    THEN ((specs.ridgeHeight - specs.eaveHeight) * 1000) \div specs.halfWidth
    ELSE 200

\* UprightConnectors.tsx: the drop the connector placement uses
ConnectorDrop(specs) ==
  clamp(ConnectorSlope(specs) * specs.uprightWidth, MinDrop, MaxDrop)

SeqMin(xs) == CHOOSE a \in Range(xs) : \A b \in Range(xs) : a <= b
SeqMax(xs) == CHOOSE a \in Range(xs) : \A b \in Range(xs) : b <= a

\* applyMiterToVertices on the top-face vertices with X coordinates xs: the
\* amount subtracted from the height of each, slope * (x - minX) on a right
\* upright and slope * (maxX - x) on a left one; nothing for a slope of 0.
applyMiterToVertices(xs, modelSlopePerX, outerIsPositiveX) ==
  IF modelSlopePerX = 0 THEN [i \in DOMAIN xs |-> 0]
  ELSE [i \in DOMAIN xs |->
          IF outerIsPositiveX THEN modelSlopePerX * (xs[i] - SeqMin(xs))
                              ELSE modelSlopePerX * (SeqMax(xs) - xs[i])]

\* X coordinates of the top-face vertices of an upright scaled to its
\* profile width: the two edges and the middle
UprightTopXs(specs) == <<0, specs.uprightWidth \div 2, specs.uprightWidth>>

Drops(connector, right, left) == [connector |-> connector, right |-> right, left |-> left]

\* Uprights.tsx, "Apply miter cut to vertex data": only if (hasMiter)
UprightsMiter(specs) ==
  IF UprightSlope(specs) > 0
    THEN Drops(<<>>, applyMiterToVertices(UprightTopXs(specs), UprightSlope(specs), TRUE),
                     applyMiterToVertices(UprightTopXs(specs), UprightSlope(specs), FALSE))
    ELSE Drops(<<>>, <<>>, <<>>)

\* ------------------------------------------------------- mirrored clones
\* A geometry is its vertex buffers and its index buffer, as flat arrays; a
\* buffer the mesh does not have (getVerticesData / getIndices returns null)
\* is the empty array.  Coordinates are whole numbers: negation is exact.

Geometry(positions, normals, tangents, indices) ==
  [positions |-> positions, normals |-> normals, tangents |-> tangents,
   indices |-> indices]

\* Position buffers of the meshes mirrored: none, one triangle, two triangles
PositionChoices ==
  { <<>>,
    <<0, 0, 0,  424, 0, 0,  0, 112, 212>>,
    <<-212, 0, 0,  212, 0, 56,  0, 112, -106,  424, 112, 212>> }

NormalChoices ==
  { <<>>,
    <<0, 0, 1,  0, 0, 1,  0, 0, 1>>,
    <<1, 0, 0,  -1, 0, 0,  0, 1, 0,  0, 0, -1>> }

\* Tangents have four components per vertex, x y z w
TangentChoices ==
  { <<>>,
    <<1, 0, 0, 1,  1, 0, 0, 1,  1, 0, 0, 1>>,
    <<0, 1, 0, -1,  -1, 0, 0, 1,  1, 0, 0, -1,  0, 0, 1, 1>> }

IndexChoices == { <<>>, <<0, 1, 2>>, <<0, 1, 2,  2, 1, 3>> }

Geometries ==
  {Geometry(ps, ns, ts, ix) :
     ps \in PositionChoices, ns \in NormalChoices, ts \in TangentChoices,
     ix \in IndexChoices}

\* for (i = 0; i < data.length; i += stride) data[i] = -data[i]
NegateX(data, stride) ==
  [i \in DOMAIN data |-> IF (i - 1) % stride = 0 THEN 0 - data[i] ELSE data[i]]

\* (mutant) fixWinding that rotates each triangle's indices instead of
\* swapping the last two
fixWinding_Rotates(indices) ==
  [i \in DOMAIN indices |->
     IF (i - 1) % 3 = 2 THEN indices[i - 2] ELSE indices[i + 1]]

\* fixWinding: swap indices[i + 1] and indices[i + 2] in every triangle
fixWinding(indices) ==
  [i \in DOMAIN indices |->
     CASE (i - 1) % 3 = 1 -> indices[i + 1]
       [] (i - 1) % 3 = 2 -> indices[i - 1]
       [] OTHER -> indices[i]]

\* createMirroredClone: the clone's own geometry with position X, normal X
\* and tangent X negated and the winding reversed
createMirroredClone(source) ==
  Geometry(NegateX(source.positions, 3), NegateX(source.normals, 3),
           NegateX(source.tangents, 4), fixWinding(source.indices))

\* ---------------------------------------------------------- arch height

\* archOuterSpan and ridgeHeight of the specifications asked for a height
\* (7606 is the 15 m tent; the ridge may be level with the eave)
ArchSpans == {2000, 7600, 7606}
RidgeHeights == {3200, 4000, 5100}

ArchSpecs ==
  {[TENT_SPECS EXCEPT !.archOuterSpan = a, !.ridgeHeight = h] :
     a \in ArchSpans, h \in RidgeHeights}

\* The X positions a height is asked for: the centre, the purlin and gable
\* support positions, the spans themselves, positions beyond them
ArchXs ==
  {-9000, -7606, -7600, -5000, -2500, -2000, -1250, -1, 0, 1, 1250, 2000, 2500,
   5000, 7500, 7600, 7605, 7606, 7607, 9000}

\* Math.abs(x)
Abs(x) == IF x < 0 THEN 0 - x ELSE x

\* The largest r with r * r <= v
Isqrt(v, hi) == CHOOSE r \in 0..hi : r * r <= v /\ (r + 1) * (r + 1) > v

\* Math.sin(Math.acos(num / den)), times den: the other leg of the right
\* triangle with hypotenuse den and leg num
SinOfAcos(num, den) == Isqrt(den * den - num * num, den)

\* (mutant) getArchHeightAtX that takes the cosine of the angle for its sine
getArchHeightAtX_Cosine(x, specs) ==
  LET span == specs.archOuterSpan
      clampedX == IF Abs(x) > span THEN span ELSE Abs(x)
  IN specs.eaveHeight + ((specs.ridgeHeight - specs.eaveHeight) * clampedX) \div span

\* getArchHeightAtX: clampedX = min(1, |x| / archOuterSpan), both kept as
\* numerators over archOuterSpan; eaveHeight + rise * sin(acos(clampedX))
getArchHeightAtX(x, specs) ==
  LET span == specs.archOuterSpan
      clampedX == IF Abs(x) > span THEN span ELSE Abs(x)
  IN specs.eaveHeight
       + ((specs.ridgeHeight - specs.eaveHeight) * SinOfAcos(clampedX, span)) \div span

\* The mesh a planner's lists are emitted on
PlanMesh == MeshRec("clone", 0, 0, TRUE, TRUE, FALSE, Aluminum, 1)

PlanRec(planner, numBays, specs) ==
  [pc |-> "idle",                  \* idle | planned | emitted
   planner |-> planner, numBays |-> numBays, specs |-> specs,
   out |-> Lists(<<>>, <<>>, <<>>),   \* the transform lists of a bilateral planner
   lines |-> <<>>,                 \* the result of getBayPositions
   ends |-> <<>>,                  \* the entries of a gable component
   drops |-> Drops(<<>>, <<>>, <<>>), \* the miter drops applied
   slope |-> 0,                    \* the rafter slope the component used
   source |-> Geometry(<<>>, <<>>, <<>>, <<>>),  \* the geometry to be mirrored
   once |-> Geometry(<<>>, <<>>, <<>>, <<>>),    \* its mirrored clone
   twice |-> Geometry(<<>>, <<>>, <<>>, <<>>),   \* the mirrored clone of that
   heights |-> <<>>,               \* getArchHeightAtX per X position asked
   emitter |-> "none",
   before |-> <<>>,                \* history: the meshes as they were before emitting
   targets |-> <<PlanMesh>>]       \* the meshes with geometry

PlanInit ==
  /\ \/ plan \in {PlanRec(pl, n, sp) : pl \in Planners, n \in -1..MaxBays, sp \in SpecsChoices}
     \/ plan \in {[PlanRec("createMirroredClone", 0, TENT_SPECS) EXCEPT !.source = g] :
                    g \in Geometries}
     \/ plan \in {PlanRec("getArchHeightAtX", 0, sp) : sp \in ArchSpecs}
  /\ glbCache = EmptyMap
  /\ meshes = <<>>
  /\ runs = <<>>
  /\ mounted = {}
  /\ hasSlope = FALSE
  /\ current = [c \in Comps |-> 0]
  /\ loadingCount = 0
  /\ matDisposed = {}
  /\ geomEdited = {}
  /\ imports = [k \in Scenes \X {KeyOf(c) : c \in Comps} |-> 0]
  /\ sequential = TRUE
  /\ boundsCache = [c \in BoundsComps |-> EmptyMap]
  /\ calls = <<>>
  /\ gone = {}
  /\ part = NoPart

loaderVars == <<glbCache, meshes, runs, mounted, hasSlope, current, loadingCount,
                matDisposed, geomEdited, imports, sequential, boundsCache, calls, gone,
                part>>

\* The fitting and placement part of a callback, or one call of a helper:
\* the lists, positions and miter drops it computes.
PlanTransforms ==
  /\ plan.pc = "idle"
  /\ plan.planner \in Planners
  /\ LET sp == plan.specs
         n == plan.numBays
         out == CASE plan.planner = "Baseplates" -> BaseplatesPlan(sp, n)
                  [] plan.planner = "Uprights" -> UprightsPlan(sp, n)
                  [] plan.planner = "UprightConnectors" -> ConnectorsPlan(sp, n)
                  [] OTHER -> Lists(<<>>, <<>>, <<>>)
         twoSided == \/ plan.planner = "UprightConnectors"
                     \/ plan.planner = "Uprights" /\ UprightSlope(sp) > 0
     IN plan' = [plan EXCEPT
          !.pc = "planned",
          !.out = out,
          !.lines = IF plan.planner = "getBayPositions" THEN getBayPositions(n, sp) ELSE <<>>,
          !.ends = CASE plan.planner = "GableEaveBeams" ->
                          GableEaveBeams(getTentLength(n, sp), sp)
                     [] plan.planner = "GableSupports" ->
                          GableSupports(getTentLength(n, sp), sp)
                     [] OTHER -> <<>>,
          !.slope = CASE plan.planner = "Uprights" -> UprightSlope(sp)
                      [] plan.planner = "UprightConnectors" -> ConnectorSlope(sp)
                      [] OTHER -> 0,
          !.drops = CASE plan.planner = "Uprights" -> UprightsMiter(sp)
                      [] plan.planner = "UprightConnectors" ->
                           Drops(<<ConnectorDrop(sp)>>, <<>>, <<>>)
                      [] OTHER -> Drops(<<>>, <<>>, <<>>),
          !.targets = IF twoSided THEN <<PlanMesh, PlanMesh>> ELSE <<PlanMesh>>]
  /\ UNCHANGED loaderVars

\* The lists are emitted: the right (or only) mesh gets the right (or single)
\* list, the left mesh the left list.
EmitInstances(e) ==
  /\ plan.pc = "planned"
  /\ plan.planner \in Bilateral
  /\ LET listOf(k) == IF Len(plan.targets) = 1 THEN plan.out.paired
                      ELSE IF k = 1 THEN plan.out.right ELSE plan.out.left
     IN plan' = [plan EXCEPT
          !.pc = "emitted",
          !.emitter = e,
          !.before = plan.targets,
          !.targets = [k \in DOMAIN plan.targets |->
                         IF e = "createThinInstances"
                           THEN createThinInstances(plan.targets[k], listOf(k))
                           ELSE createFrozenThinInstances(plan.targets[k], listOf(k))]]
  /\ UNCHANGED loaderVars

\* createMirroredClone(source), then createMirroredClone of the result
MirrorClone ==
  /\ plan.planner = "createMirroredClone"
  /\ plan.pc \in {"idle", "mirrored"}
  /\ plan' = IF plan.pc = "idle"
               THEN [plan EXCEPT !.pc = "mirrored",
                                 !.once = createMirroredClone(plan.source)]
               ELSE [plan EXCEPT !.pc = "restored",
                                 !.twice = createMirroredClone(plan.once)]
  /\ UNCHANGED loaderVars

\* getArchHeightAtX(x, specs) for every X position asked
ArchHeights ==
  /\ plan.planner = "getArchHeightAtX"
  /\ plan.pc = "idle"
  /\ plan' = [plan EXCEPT !.pc = "measured",
                          !.heights = [x \in ArchXs |-> getArchHeightAtX(x, plan.specs)]]
  /\ UNCHANGED loaderVars

PlanNext ==
  \/ PlanTransforms
  \/ \E e \in Emitters : EmitInstances(e)
  \/ MirrorClone
  \/ ArchHeights

PlanSpec == PlanInit /\ [][PlanNext]_vars

\* ------------------------------------------------------------------ claims

Done(r) == runs[r].pc = "done"

\* The meshes SceneLoader.ImportMeshAsync created for run r
ImportedBy(r) == {i \in DOMAIN meshes : meshes[i].kind = "imported" /\ meshes[i].run = r}

\* The template meshes the cache holds
Cached == UNION {Range(glbCache[k].meshes) : k \in DOMAIN glbCache}

\* The run of the same component that run r replaced (0: none)
Prev(r) ==
  LET earlier == {q \in 1..(r - 1) : runs[q].comp = runs[r].comp}
  IN IF earlier = {} THEN 0 ELSE CHOOSE q \in earlier : \A p \in earlier : p <= q

\* Thin instances of component c that the scene still holds
InstancesOf(c) ==
  SeqSum([i \in DOMAIN meshes |->
            IF ~meshes[i].disposed /\ runs[meshes[i].run].comp = c
              THEN meshes[i].inst ELSE 0])

\* Run r2 of Uprights (numBays = 5) replaced run r1 (numBays = 3) while the
\* load of r1 was pending; both loads have settled, r2 placed its instances
\* and is still mounted.
SliderDrag(r1, r2) ==
  /\ r1 # 0
  /\ runs[r2].comp = "Uprights"
  /\ runs[r1].numBays = 3 /\ runs[r2].numBays = 5
  /\ runs[r1].midLoad
  /\ Done(r1) /\ Done(r2)
  /\ runs[r2].exit = "success"
  /\ current["Uprights"] = r2

\* C1: numBays goes from 3 to 5 while the first Uprights load is pending;
\* once both loads have settled the scene holds the 12 upright instances of
\* the numBays = 5 run only, and every mesh and the root node created for
\* the numBays = 3 run are disposed.
C1_SliderDragLeavesOnlyNewRun ==
  \A r2 \in DOMAIN runs :
    LET r1 == Prev(r2)
    IN SliderDrag(r1, r2) =>
         /\ InstancesOf("Uprights") = 12
         /\ \A i \in DOMAIN meshes :
              (~meshes[i].disposed /\ meshes[i].inst > 0
                 /\ runs[meshes[i].run].comp = "Uprights") => meshes[i].run = r2
         /\ \A i \in DOMAIN meshes : meshes[i].run = r1 => meshes[i].disposed
         /\ runs[r1].rootDisposals >= 1

C1_Witness ==
  \E r2 \in DOMAIN runs :
    /\ SliderDrag(Prev(r2), r2)
    /\ runs[Prev(r2)].viaImport
    /\ runs[r2].viaImport
    /\ ImportedBy(Prev(r2)) # {}

\* C2: in every part controller, a run canceled before its load resolves
\* disposes every clone the cache handed to it.
C2_CanceledRunDisposesClones ==
  \A r \in DOMAIN runs :
    (Done(r) /\ runs[r].midLoad) =>
      \A i \in Range(runs[r].loaded) : meshes[i].disposed

\* The import of run r resolved with the signal passed to loadGLB aborted
AbortedAtResolve(r) ==
  /\ Done(r)
  /\ runs[r].comp \in SignalComps
  /\ runs[r].viaImport
  /\ runs[r].midLoad
  /\ runs[r].exit # "failed"

\* C3: when the signal is aborted by the time the import resolves, loadGLB
\* disposes every imported mesh, stores none of them in the cache and
\* returns an empty list.
C3_AbortedLoadDiscardsImport ==
  \A r \in DOMAIN runs :
    AbortedAtResolve(r) =>
      /\ ImportedBy(r) # {}
      /\ \A i \in ImportedBy(r) : meshes[i].disposed /\ i \notin Cached
      /\ runs[r].loaded = <<>>

C3_Witness ==
  \E r \in DOMAIN runs :
    AbortedAtResolve(r) /\ Cardinality(ImportedBy(r)) = 2
      /\ KeyOf(runs[r].comp) \notin DOMAIN glbCache

\* C4: every mesh loadGLB hands to a caller, on the first call for a key as
\* on later ones, is an enabled clone created for that call, and never a
\* template held by a cache entry.
C4_CallersGetFreshEnabledClones ==
  \A r \in DOMAIN runs :
    \A i \in Range(runs[r].loaded) :
      /\ meshes[i].kind = "clone"
      /\ meshes[i].run = r
      /\ meshes[i].enabled
      /\ meshes[meshes[i].src].kind = "imported"
      /\ i \notin Cached
      /\ \A q \in DOMAIN runs : q # r => i \notin Range(runs[q].loaded)

C4_Witness ==
  \E r, q \in DOMAIN runs :
    /\ runs[r].viaImport /\ Len(runs[r].loaded) = 2
    /\ ~runs[q].viaImport /\ Len(runs[q].loaded) = 2
    /\ KeyOf(runs[r].comp) \in DOMAIN glbCache

AllSettled == \A r \in DOMAIN runs : Done(r)

\* C5: every onLoadStateChange(true) of a run is matched by exactly one
\* onLoadStateChange(false) on every exit path, so loadingCount is 0 once
\* all loads have settled.
C5_LoadStateBalanced ==
  /\ \A r \in DOMAIN runs : Done(r) => runs[r].offs = runs[r].ons
  /\ AllSettled => loadingCount = 0

\* Run r was still loading when a newer run of its component replaced it
Superseded(r) ==
  /\ runs[r].midLoad
  /\ \E q \in DOMAIN runs : q > r /\ runs[q].comp = runs[r].comp

\* C6 (as stated): a run aborted because newer inputs superseded it never
\* calls onLoadStateChange(false).
C6_StaleRunNeverSignals ==
  \A r \in DOMAIN runs : Superseded(r) => runs[r].offs = 0

\* C6 (amended): a superseded run calls onLoadStateChange(false) at most
\* once and never before its load has settled; a superseded run of Uprights
\* or UprightConnectors calls it exactly once when its load settles, which
\* balances the onLoadStateChange(true) of that run.
C6_StaleRunSignalsOncePerComponent ==
  \A r \in DOMAIN runs :
    Superseded(r) =>
      /\ runs[r].offs <= 1
      /\ ~Done(r) => runs[r].offs = 0
      /\ (Done(r) /\ runs[r].comp \in {"Uprights", "UprightConnectors"}) =>
           runs[r].offs = 1

C6_Witness ==
  \E r \in DOMAIN runs :
    /\ Superseded(r) /\ Done(r)
    /\ runs[r].comp = "Uprights" /\ runs[r].exit = "canceled" /\ runs[r].offs = 1

\* C7: whatever consumers do with the meshes loadGLB returned, every
\* template the cache holds stays undisposed and disabled, and keeps its own
\* geometry, unedited, and its own material, undisposed.
C7_TemplatesUntouched ==
  \A i \in Cached :
    /\ ~meshes[i].disposed
    /\ ~meshes[i].enabled
    /\ meshes[i].geom = (IF meshes[i].verts THEN i ELSE 0)
    /\ meshes[i].geom \notin geomEdited
    /\ meshes[i].mat = (IF meshes[i].verts THEN i ELSE NoMaterial)
    /\ meshes[i].mat \notin matDisposed

\* C8: a loadGLB call that finds an entry of another scene under its key
\* disposes that entry's templates and deletes the entry before the import
\* starts, and the clones it returns in the end come from the meshes its
\* own import created.
C8_StaleEntryEvictedBeforeImport ==
  /\ [][\A c \in Comps, s \in Scenes : \A n \in BaysFor(c) :
          (Effect(c, s, n) /\ KeyOf(c) \in DOMAIN glbCache
             /\ glbCache[KeyOf(c)].sceneUid # s) =>
            /\ KeyOf(c) \notin DOMAIN glbCache'
            /\ \A i \in Range(glbCache[KeyOf(c)].meshes) : meshes'[i].disposed
            /\ runs'[Len(runs')].pc = "importing"
            /\ runs'[Len(runs')].loaded = <<>>]_vars
  /\ [](\A r \in DOMAIN runs :
          runs[r].viaImport =>
            \A i \in Range(runs[r].loaded) : meshes[meshes[i].src].run = r)

C8_Witness ==
  \E r, q \in DOMAIN runs :
    /\ q < r /\ runs[q].comp = runs[r].comp /\ runs[q].scene # runs[r].scene
    /\ sequential
    /\ runs[r].viaImport /\ Done(r) /\ Len(runs[r].loaded) = 2
    /\ ImportedBy(q) # {}
    /\ \A i \in ImportedBy(q) : meshes[i].disposed /\ ~meshes[i].enabled

\* C9: for one scene a (folder, file) is imported at most once over any
\* sequence of non-overlapping successful loads without a clearGLBCache,
\* loads of the same file for another scene included.
C9_OneImportPerSceneAndFile ==
  sequential => \A k \in DOMAIN imports : imports[k] <= 1

\* C10: clearGLBCache(scene) disposes and removes exactly the entries tagged
\* with the scene and leaves every other entry and every other mesh as it
\* was; clearGLBCache() disposes and removes all entries.
C10_ClearRemovesExactlyTheScene ==
  [][/\ \A uid \in Scenes :
          ClearCache(uid) =>
            /\ DOMAIN glbCache' = {k \in DOMAIN glbCache : glbCache[k].sceneUid # uid}
            /\ \A k \in DOMAIN glbCache' : glbCache'[k] = glbCache[k]
            /\ \A i \in DOMAIN meshes :
                 meshes'[i] = IF \E k \in DOMAIN glbCache :
                                   /\ glbCache[k].sceneUid = uid
                                   /\ i \in Range(glbCache[k].meshes)
                                THEN [meshes[i] EXCEPT !.disposed = TRUE,
                                                       !.disposals = @ + 1]
                                ELSE meshes[i]
     /\ ClearCacheAll =>
          /\ DOMAIN glbCache' = {}
          /\ \A i \in DOMAIN meshes :
               meshes'[i] = IF i \in Cached
                              THEN [meshes[i] EXCEPT !.disposed = TRUE, !.disposals = @ + 1]
                              ELSE meshes[i]]_vars

\* A template of one scene has been cleared while the entry of another
\* scene, under another key, is still cached.
C10_Witness ==
  \E r, q \in DOMAIN runs :
    /\ runs[r].comp # runs[q].comp /\ runs[r].scene # runs[q].scene
    /\ \A p \in DOMAIN runs : runs[p].comp = runs[r].comp => runs[p].scene = runs[r].scene
    /\ KeyOf(runs[r].comp) \notin DOMAIN glbCache
    /\ ImportedBy(r) # {}
    /\ \A i \in ImportedBy(r) : meshes[i].disposed /\ ~meshes[i].enabled
    /\ KeyOf(runs[q].comp) \in DOMAIN glbCache
    /\ \A i \in ImportedBy(q) : ~meshes[i].disposed /\ i \in Cached

\* The import of run r rejected
Failed(r) == runs[r].exit = "failed"

\* C11 (as stated): right after an import fails, the cache holds no entry
\* for the requested key.
C11_NoEntryForKeyAfterFailure ==
  [][\A r \in DOMAIN runs :
       ImportRejects(r) => KeyOf(runs[r].comp) \notin DOMAIN glbCache']_vars

\* C11 (amended): when the import fails, the rejection reaches the caller
\* (its .catch runs, its .then never does, it is handed no mesh) and the
\* failed call leaves the cache exactly as it was, so it creates no entry:
\* the key has an entry afterwards only if another load stored one.
C11_FailedImportCreatesNoEntry ==
  /\ [][\A r \in DOMAIN runs :
          ImportRejects(r) =>
            /\ glbCache' = glbCache
            /\ Len(meshes') = Len(meshes)
            /\ runs'[r].exit = "failed"
            /\ runs'[r].loaded = <<>>]_vars
  /\ [](\A r \in DOMAIN runs :
          Failed(r) =>
            /\ ImportedBy(r) = {}
            /\ \A k \in DOMAIN glbCache :
                 \A i \in Range(glbCache[k].meshes) : meshes[i].run # r)

C11_Witness ==
  \E r, q \in DOMAIN runs :
    /\ q < r /\ runs[q].comp = runs[r].comp /\ runs[q].scene # runs[r].scene
    /\ runs[q].exit = "success"
    /\ Failed(r) /\ runs[r].viaImport
    /\ KeyOf(runs[r].comp) \notin DOMAIN glbCache

\* C12: after a component's load has rejected, nothing retries it and
\* neither the root node nor any mesh created by that run is left in the
\* scene.
C12_FailedRunLeavesNothing ==
  \A r \in DOMAIN runs :
    Failed(r) =>
      /\ runs[r].rootDisposals >= 1
      /\ \A i \in DOMAIN meshes : meshes[i].run = r => meshes[i].disposed

\* C13: after a load has resolved without a mesh that has vertices, the run
\* has emitted no instance, and neither its root node nor any mesh created
\* by it or handed to it is left in the scene.
C13_EmptyLoadLeavesNothing ==
  \A r \in DOMAIN runs :
    runs[r].exit = "empty" =>
      /\ \A i \in DOMAIN meshes : meshes[i].run = r => meshes[i].inst = 0
      /\ runs[r].rootDisposals >= 1
      /\ \A i \in Range(runs[r].loaded) : meshes[i].disposed

\* Position of a cleanup step in the order the specification gives
StepRank(step) ==
  CASE step = "mesh" -> 1
    [] step = "node" -> 2
    [] step = "abort" -> 3

\* C24: the cleanup of a run disposes its meshes (the clones carrying the
\* instances) first, then the transform nodes it created, and cancels the
\* load token only after that.
C24_TeardownOrder ==
  \A r \in DOMAIN runs :
    LET t == runs[r].teardown
    IN \A i, j \in DOMAIN t : i < j => StepRank(t[i]) <= StepRank(t[j])

\* C25: when a run of a component starts, every earlier run of the component
\* has its token aborted, and the component's measurement cache holds no
\* entry computed by an earlier run.
C25_RunStartsClean ==
  [][\A c \in Comps, s \in Scenes : \A n \in BaysFor(c) :
       Effect(c, s, n) =>
         /\ \A q \in DOMAIN runs : runs[q].comp = c => runs'[q].aborted
         /\ c \in BoundsComps =>
              \A k \in DOMAIN boundsCache'[c] : boundsCache'[c][k].run \notin DOMAIN runs]_vars

\* C26: no mesh and no root node of a run is disposed more than once.
C26_NoDoubleDispose ==
  /\ \A r \in DOMAIN runs : runs[r].rootDisposals <= 1
  /\ \A i \in DOMAIN meshes : meshes[i].disposals <= 1

\* C28: whenever no load is in flight, every disabled template an import
\* created that is not disposed is held by exactly one cache entry.
C28_NoOrphanTemplates ==
  (\A r \in DOMAIN runs : runs[r].pc # "importing") =>
    \A i \in DOMAIN meshes :
      (meshes[i].kind = "imported" /\ ~meshes[i].disposed /\ ~meshes[i].enabled) =>
        Cardinality({k \in DOMAIN glbCache : i \in Range(glbCache[k].meshes)}) = 1

\* ------------------------------------------ claims about the loader alone

\* The meshes the import of call i created
ImportedByCall(i) == {m \in DOMAIN meshes : meshes[m].kind = "imported" /\ meshes[m].run = i}

\* Calls i and j asked for the same key, were waiting for their imports at
\* the same time, were not canceled, and both have returned
Raced(i, j) ==
  /\ calls[j].rival = i
  /\ calls[i].pc = "returned" /\ calls[j].pc = "returned"
  /\ calls[i].signal # "aborted" /\ calls[j].signal # "aborted"

\* C27: a call that is not canceled stores, when its import resolves, the
\* one entry of its key, built from the meshes of its own import, whatever
\* an overlapping call stored before (the last import to resolve wins), and
\* hands its caller clones of its own import; no clone is handed to two
\* callers or held by the cache.
C27_LastWriterWins ==
  /\ [][\A i \in DOMAIN calls, o \in Deliveries :
          (ImportDelivers(i, o) /\ calls[i].signal # "aborted") =>
            LET key == calls[i].key
                own == {m \in DOMAIN meshes' :
                          meshes'[m].kind = "imported" /\ meshes'[m].run = i}
            IN /\ DOMAIN glbCache' = DOMAIN glbCache \cup {key}
               /\ glbCache'[key].sceneUid = calls[i].scene
               /\ Range(glbCache'[key].meshes) = own
               /\ \A k \in DOMAIN glbCache \ {key} : glbCache'[k] = glbCache[k]
               /\ Len(calls'[i].loaded) = Cardinality(own)
               /\ \A m \in Range(calls'[i].loaded) :
                    /\ meshes'[m].kind = "clone" /\ meshes'[m].run = i
                    /\ meshes'[m].src \in own]_vars
  /\ [](\A i, j \in DOMAIN calls :
          /\ i # j => Range(calls[i].loaded) \cap Range(calls[j].loaded) = {}
          /\ Range(calls[i].loaded) \cap Cached = {}
          /\ Raced(i, j) =>
               \A m \in Range(calls[j].loaded) : meshes[m].src \in ImportedByCall(j))

\* Two calls raced for a key; the one that started first resolved last and
\* its import is what the cache holds.
C27_Witness ==
  \E i, j \in DOMAIN calls :
    /\ Raced(i, j)
    /\ calls[i].scene = calls[j].scene
    /\ Len(calls[i].loaded) = 2 /\ Len(calls[j].loaded) = 2
    /\ calls[i].key \in DOMAIN glbCache
    /\ Range(glbCache[calls[i].key].meshes) = ImportedByCall(i)
    /\ \A m \in ImportedByCall(j) : ~meshes[m].disposed

\* C29: once a scene has been torn down and clearGLBCache(scene) called, the
\* cache holds no entry tagged with that scene, whatever resolves later.
C29_NoEntryForGoneScene ==
  \A uid \in gone : \A k \in DOMAIN glbCache : glbCache[k].sceneUid # uid

\* ---------------------------------------------- claims about the part loader

\* C30: the loading flag is true as long as the latest loadPart call has not
\* finished; a superseded call that has finished has disposed every mesh it
\* was handed and has not called onLoaded.
C30_LoadingWhileLatestPending ==
  LET loads == part.loads
  IN /\ (loads # <<>> /\ loads[Len(loads)].pc # "done") => part.loading
     /\ \A i \in DOMAIN loads :
          loads[i].exit = "stale" =>
            /\ loads[i].onLoaded = 0
            /\ \A m \in Range(loads[i].loaded) : meshes[m].disposed

\* -------------------------------------------------- claims about placement

Planned == plan.pc \in {"planned", "emitted"}

\* Every entry a bilateral planner handed on, whichever list it is in
AllEntries == Range(plan.out.paired) \cup Range(plan.out.right) \cup Range(plan.out.left)

\* C14: for numBays >= 1 a bilateral component computes 2 * (numBays + 1)
\* transforms in total, exactly one left and one right entry per frame line,
\* in the single-list path and in the separate right/left path alike.
C14_BilateralCount ==
  (Planned /\ plan.planner \in Bilateral /\ plan.numBays >= 1) =>
    /\ Len(plan.out.paired) + Len(plan.out.right) + Len(plan.out.left)
         = 2 * (plan.numBays + 1)
    /\ Cardinality(AllEntries) = 2 * (plan.numBays + 1)
    /\ \A i \in 0..plan.numBays : \A sd \in {"L", "R"} :
         \E t \in AllEntries : t.line = i /\ t.side = sd
    /\ plan.out.paired # <<>> => (plan.out.right = <<>> /\ plan.out.left = <<>>)
    /\ plan.out.paired = <<>> => Len(plan.out.right) = Len(plan.out.left)

C14_Witness ==
  /\ Planned /\ plan.planner = "Uprights" /\ plan.numBays = MaxBays
  /\ Len(plan.out.right) = MaxBays + 1 /\ Len(plan.out.left) = MaxBays + 1
  /\ plan.specs.bayDistance = 5000

\* The frame-line coordinates a planner used, in loop order
LinesOf ==
  IF plan.planner = "getBayPositions" THEN plan.lines
  ELSE [i \in 1..(plan.numBays + 1) |->
          (CHOOSE t \in AllEntries : t.line = i - 1 /\ t.side = "R").z]

\* C15: for numBays >= 1 the frame-line coordinates of every planner are
\* i * bayDistance - totalLength / 2 for i = 0..numBays: numBays + 1 entries,
\* symmetric about zero, consecutive entries bayDistance apart.
C15_LinesCentred ==
  (/\ Planned
   /\ plan.planner \in Bilateral \cup {"getBayPositions"}
   /\ plan.numBays >= 1
   /\ plan.specs.bayDistance > 0) =>
    LET n == plan.numBays
        bd == plan.specs.bayDistance
    IN /\ Len(LinesOf) = n + 1
       /\ \A i \in 1..(n + 1) : LinesOf[i] = (i - 1) * bd - (n * bd) \div 2
       /\ \A i \in 1..(n + 1) : LinesOf[i] = 0 - LinesOf[n + 2 - i]
       /\ \A i \in 1..n : LinesOf[i + 1] - LinesOf[i] = bd

\* C16 (as stated): a gable component yields exactly two entries, one at the
\* front line and one at the back line, y = totalLength, whatever numBays.
C16_GableExactlyTwo ==
  (Planned /\ plan.planner \in {"GableEaveBeams", "GableSupports"}) =>
    /\ Len(plan.ends) = 2
    /\ \E t \in Range(plan.ends) : t.end = "front"
    /\ \E t \in Range(plan.ends) :
         t.end = "back" /\ t.y = plan.numBays * plan.specs.bayDistance

\* C16 (amended): GableEaveBeams yields exactly two entries, at y = 0 and at
\* y = tentLength; GableSupports yields two entries for each position of
\* gableSupportPositions, the front one at y = 0.050 and the back one at
\* y = tentLength - 0.050; neither count depends on numBays.
C16_GableTwoPerPosition ==
  LET tentLength == plan.numBays * plan.specs.bayDistance
      xs == plan.specs.gableSupportPositions
  IN /\ (Planned /\ plan.planner = "GableEaveBeams") =>
          /\ Len(plan.ends) = 2
          /\ plan.ends[1].end = "front" /\ plan.ends[1].y = 0
          /\ plan.ends[2].end = "back" /\ plan.ends[2].y = tentLength
     /\ (Planned /\ plan.planner = "GableSupports") =>
          /\ Len(plan.ends) = 2 * Len(xs)
          /\ \A k \in DOMAIN xs :
               /\ Cardinality({j \in DOMAIN plan.ends : plan.ends[j].x = xs[k]}) = 2
               /\ \E j \in DOMAIN plan.ends :
                    plan.ends[j] = [end |-> "front", x |-> xs[k], y |-> 50]
               /\ \E j \in DOMAIN plan.ends :
                    plan.ends[j] = [end |-> "back", x |-> xs[k], y |-> tentLength - 50]

C16_Witness ==
  /\ Planned /\ plan.planner = "GableSupports"
  /\ plan.numBays = 3 /\ plan.specs.bayDistance = 5000
  /\ Len(plan.ends) = 4 /\ plan.ends[4].y = 14950

\* C17: for a degenerate specification (bayDistance zero or negative) the
\* placement step hands on an empty list or well-formed entries: no two
\* frame lines of one side at the same place.
C17_NoCoincidentLines ==
  (Planned /\ plan.planner \in Bilateral) =>
    \A t, u \in AllEntries : (t.side = u.side /\ t.line # u.line) => t.z # u.z

\* C18: emitting an empty transform list leaves the mesh as it was: no
\* instance buffer, always-active flag and frozen state unchanged.
C18_EmptyEmitIsNoOp ==
  plan.pc = "emitted" =>
    \A k \in DOMAIN plan.targets :
      plan.targets[k].inst = 0 => plan.targets[k] = plan.before[k]

\* C19: for a list of N >= 1 transforms the emitter attaches exactly one
\* instance buffer with N matrices to the mesh and creates no mesh.
C19_OneBufferPerTemplate ==
  plan.pc = "emitted" =>
    /\ Len(plan.targets) = Len(plan.before)
    /\ \A k \in DOMAIN plan.targets :
         LET list == IF Len(plan.targets) = 1 THEN plan.out.paired
                     ELSE IF k = 1 THEN plan.out.right ELSE plan.out.left
         IN Len(list) >= 1 =>
              /\ plan.targets[k].buffers = 1
              /\ plan.targets[k].inst = Len(list)
              /\ plan.before[k].buffers = 0

C19_Witness ==
  /\ plan.pc = "emitted" /\ plan.numBays = MaxBays
  /\ Len(plan.targets) = 1
  /\ plan.targets[1].inst = 2 * (MaxBays + 1)
  /\ plan.targets[1].buffers = 1

\* C20: whatever the slope, every miter drop applied lies within the
\* configured bounds: the connector drop between MinDrop and MaxDrop, the
\* drop written to an upright vertex between 0 and MaxDrop.
C20_MiterDropClamped ==
  Planned =>
    /\ \A d \in Range(plan.drops.connector) : MinDrop <= d /\ d <= MaxDrop
    /\ \A d \in Range(plan.drops.right) \cup Range(plan.drops.left) :
         0 <= d /\ d <= MaxDrop

\* C21: when the specification carries no rafterSlopeAtEave, the upright
\* miter cut and the connector tilt/drop both use the slope derived as
\* (ridgeHeight - eaveHeight) / halfWidth.
C21_DerivedSlopeShared ==
  (/\ Planned
   /\ plan.planner \in {"Uprights", "UprightConnectors"}
   /\ ~plan.specs.hasRafterSlope) =>
    plan.slope = ((plan.specs.ridgeHeight - plan.specs.eaveHeight) * 1000)
                   \div plan.specs.halfWidth

\* The triangles of an index buffer, as triples
Triangles(ix) == {<<ix[3 * t + 1], ix[3 * t + 2], ix[3 * t + 3]>> : t \in 0..(Len(ix) \div 3 - 1)}

\* C22: the mirrored clone has X negated and every triangle's winding
\* reversed; the mirrored clone of a mirrored clone has the positions,
\* normals, tangents and index order of the original.
C22_MirrorIsInvolution ==
  /\ (plan.planner = "createMirroredClone" /\ plan.pc \in {"mirrored", "restored"}) =>
       /\ \A i \in DOMAIN plan.source.positions :
            plan.once.positions[i]
              = (IF i % 3 = 1 THEN 0 - plan.source.positions[i] ELSE plan.source.positions[i])
       /\ Triangles(plan.once.indices)
            = {<<t[1], t[3], t[2]>> : t \in Triangles(plan.source.indices)}
  /\ (plan.planner = "createMirroredClone" /\ plan.pc = "restored") =>
       plan.twice = plan.source

C22_Witness ==
  /\ plan.planner = "createMirroredClone" /\ plan.pc = "restored"
  /\ Len(plan.source.positions) = 12 /\ Len(plan.source.indices) = 6
  /\ Len(plan.source.normals) = 12 /\ Len(plan.source.tangents) = 16
  /\ plan.once.positions # plan.source.positions
  /\ plan.once.normals # plan.source.normals
  /\ plan.once.tangents # plan.source.tangents
  /\ plan.once.indices # plan.source.indices
  /\ plan.twice = plan.source

\* C23: for a valid specification (archOuterSpan > 0, ridge not below the
\* eave) the arch height is ridgeHeight at x = 0, eaveHeight at and beyond
\* |x| = archOuterSpan, and does not increase as |x| grows.
C23_ArchHeightProfile ==
  (plan.planner = "getArchHeightAtX" /\ plan.pc = "measured") =>
    LET sp == plan.specs
        h == plan.heights
    IN /\ h[0] = sp.ridgeHeight
       /\ \A x \in ArchXs : Abs(x) >= sp.archOuterSpan => h[x] = sp.eaveHeight
       /\ \A x, y \in ArchXs : Abs(x) <= Abs(y) => h[x] >= h[y]
       /\ \A x \in ArchXs : sp.eaveHeight <= h[x] /\ h[x] <= sp.ridgeHeight

C23_Witness ==
  /\ plan.planner = "getArchHeightAtX" /\ plan.pc = "measured"
  /\ plan.specs.archOuterSpan = 7606 /\ plan.specs.ridgeHeight = 5100
  /\ plan.heights[0] = 5100
  /\ plan.heights[7606] = 3200 /\ plan.heights[-9000] = 3200
  /\ plan.heights[2500] < 5100 /\ plan.heights[2500] > plan.heights[5000]
  /\ plan.heights[5000] > plan.heights[7605] /\ plan.heights[7605] > 3200

====
